---- MODULE Spec2Model ----
(***************************************************************************)
(* Boris-push propagators (PropagationBP, PropagationRS) and the Scatter   *)
(* module of CRPropa3: step-size configuration, one process call per       *)
(* candidate, the adaptive step-doubling loop and the scattering rotation. *)
(*                                                                         *)
(* Numbers.  A double that holds a length (minStep, maxStep, step,         *)
(* currentStep, nextStep) is an integer count of quanta, one quantum       *)
(* being the spacing of the doubles at that magnitude; a product is        *)
(* rounded to the nearest quantum, ties to even, as IEEE-754 rounds it.   *)
(* PosInf and NaN are the two non-finite doubles the code can produce.     *)
(* The tolerance is counted in hundredths (0.42 is 42).  Vectors are exact *)
(* rationals: three integer numerators over one positive denominator; the  *)
(* denominator 0 is the vector of NaNs (0/0).                              *)
(***************************************************************************)
EXTENDS Integers, Sequences, FiniteSets, TLC

\* The element of the one-element set S.  An argument bound through such a
\* set, as in The({F(v) : v \in {e}}), is computed once however often F
\* uses it.
The(S) == CHOOSE v \in S : TRUE

(* ------------------------------------------------------------------ *)
(* doubles                                                              *)
(* ------------------------------------------------------------------ *)
PosInf == 2^30
NaN == 0 - 2^30
\* a member that no constructor or setter has assigned yet
Uninit == 0 - 2^29

IsNaN(a) == a = NaN
\* a < b on doubles: false as soon as one side is NaN
Lt(a, b) == a # NaN /\ b # NaN /\ a < b
Gt(a, b) == Lt(b, a)
\* std::min(a, b) is (b < a) ? b : a, std::max(a, b) is (a < b) ? b : a
StdMin(a, b) == IF Lt(b, a) THEN b ELSE a
StdMax(a, b) == IF Lt(a, b) THEN b ELSE a

\* n / d rounded to the nearest integer, ties to even (n >= 0, d > 0)
RN(n, d) ==
    The({ IF 2 * r < d THEN q
          ELSE IF 2 * r > d THEN q + 1
          ELSE IF q % 2 = 0 THEN q ELSE q + 1 : q \in {n \div d}, r \in {n % d} })

\* x * (n / d) in double arithmetic; d = 0 stands for the factor +inf
MulRat(x0, n, d) ==
    The({ IF x = NaN THEN NaN
          ELSE IF d = 0 THEN (IF x = 0 THEN NaN ELSE PosInf)
          ELSE IF x = PosInf THEN (IF n = 0 THEN NaN ELSE PosInf)
          ELSE RN(x * n, d) : x \in {x0} })

\* crpropa::clip(x, lower, upper) is std::max(lower, std::min(x, upper))
clip(x, lower, upper) == StdMax(lower, StdMin(x, upper))

(* ------------------------------------------------------------------ *)
(* rational 3-vectors                                                   *)
(* ------------------------------------------------------------------ *)
Abs(a) == IF a < 0 THEN 0 - a ELSE a

RECURSIVE GCD(_, _)
GCD(a0, b0) ==
    The({ IF b = 0 THEN Abs(a) ELSE GCD(b, a % Abs(b)) : a \in {a0}, b \in {b0} })

\* the vector (x, y, z) / d in lowest terms
Vec(x0, y0, z0, d0) ==
    The({ IF d = 0 THEN [n |-> <<0, 0, 0>>, d |-> 0]
          ELSE The({ [n |-> <<x \div s, y \div s, z \div s>>, d |-> d \div s] :
                     s \in {IF d < 0 THEN 0 - GCD(GCD(GCD(x, y), z), d)
                                     ELSE GCD(GCD(GCD(x, y), z), d)} })
          : x \in {x0}, y \in {y0}, z \in {z0}, d \in {d0} })

NaNVec == Vec(0, 0, 0, 0)
\* Vector3d(): the default constructor sets the three components to 0
Zero == Vec(0, 0, 0, 1)
Ex == Vec(1, 0, 0, 1)
Ey == Vec(0, 1, 0, 1)
Ez == Vec(0, 0, 1, 1)

VIsNaN(v) == v.d = 0

VAdd(a0, b0) ==
    The({ IF a.d = 0 \/ b.d = 0 THEN NaNVec
          ELSE The({ Vec(a.n[1] * (l \div a.d) + b.n[1] * (l \div b.d),
                         a.n[2] * (l \div a.d) + b.n[2] * (l \div b.d),
                         a.n[3] * (l \div a.d) + b.n[3] * (l \div b.d), l) :
                     l \in {(a.d \div GCD(a.d, b.d)) * b.d} })
          : a \in {a0}, b \in {b0} })

\* a * (p / q); q = 0 gives the vector of NaNs
VScale(a0, p0, q0) ==
    The({ IF a.d = 0 \/ q = 0 THEN NaNVec
          ELSE The({ The({ Vec((a.n[1] \div k) * (p \div g), (a.n[2] \div k) * (p \div g),
                               (a.n[3] \div k) * (p \div g), a.d * ((q \div g) \div k)) :
                           k \in {GCD(GCD(GCD(a.n[1], a.n[2]), a.n[3]), q \div g)} })
                     : g \in {GCD(p, q)} })
          : a \in {a0}, p \in {p0}, q \in {q0} })

VSub(a, b) == VAdd(a, VScale(b, 0 - 1, 1))

VCross(a0, b0) ==
    The({ IF a.d = 0 \/ b.d = 0 THEN NaNVec
          ELSE Vec(a.n[2] * b.n[3] - a.n[3] * b.n[2],
                   a.n[3] * b.n[1] - a.n[1] * b.n[3],
                   a.n[1] * b.n[2] - a.n[2] * b.n[1], a.d * b.d)
          : a \in {a0}, b \in {b0} })

\* numerator and denominator of a . b (both vectors finite)
DotN(a, b) == a.n[1] * b.n[1] + a.n[2] * b.n[2] + a.n[3] * b.n[3]
DotD(a, b) == a.d * b.d

\* the integer square root of m, by bisection on lo <= sqrt(m) < hi
RECURSIVE SqrtIn(_, _, _)
SqrtIn(m, lo0, hi0) ==
    The({ IF hi - lo <= 1 THEN lo
          ELSE IF (lo + hi) \div 2 <= m \div ((lo + hi) \div 2)
               THEN SqrtIn(m, (lo + hi) \div 2, hi)
               ELSE SqrtIn(m, lo, (lo + hi) \div 2)
          : lo \in {lo0}, hi \in {hi0} })

\* defined on perfect squares only: every norm the model takes is rational
Isqrt(m0) == The({ CHOOSE k \in {SqrtIn(m, 0, m + 1)} : k * k = m : m \in {m0} })

\* Vector3::getUnitVector(): *this / getR(); the zero vector gives 0/0
getUnitVector(v0) ==
    The({ IF v.d = 0 \/ DotN(v, v) = 0 THEN NaNVec
          ELSE Vec(v.n[1], v.n[2], v.n[3], Isqrt(DotN(v, v))) : v \in {v0} })

\* |v| = 1, decided on the squares
IsUnit(v) == v.d # 0 /\ DotN(v, v) = v.d * v.d

(* ------------------------------------------------------------------ *)
(* the field sampler and the Boris push                                 *)
(* ------------------------------------------------------------------ *)
\* 2 * m * c_light with m = energy / c_light^2, in the units of step * |B| * |q|
TwoMC == 20

\* What field->getField(pos, z) does on one call: it throws, or it returns a
\* vector.  The value offered to a push of length hn/hd is the field along z
\* of magnitude 2mc / hn: the Boris parameter |t| of the push is then 1/hd,
\* a rotation with rational sine and cosine.
FieldValues(hn, hd) ==
    IF hn = 0 THEN {Ez} ELSE {VScale(Ez, TwoMC, hn)}

Samples(hn, hd) ==
    {[kind |-> "throw", B |-> Zero]}
        \cup {[kind |-> "value", B |-> b] : b \in FieldValues(hn, hd)}

\* the mutant: the exception of the field model is not caught
getFieldAtPosition_uncaught(fieldValid, sample) ==
    IF fieldValid /\ sample.kind = "throw"
    THEN [B |-> Zero, raised |-> TRUE]
    ELSE [B |-> IF fieldValid THEN sample.B ELSE Zero, raised |-> FALSE]

\* getFieldAtPosition: B(0,0,0), overwritten only when the field is valid and
\* getField returns; a std::exception is caught and logged
getFieldAtPosition(fieldValid, sample) ==
    IF fieldValid /\ sample.kind = "value"
    THEN [B |-> sample.B, raised |-> FALSE]
    ELSE [B |-> Zero, raised |-> FALSE]

\* the mutant: the second half of the position step is left out
dY_halfOnly(pos, dir, hn, hd, q, fieldValid, sample) ==
    The({ [x |-> VAdd(pos, VScale(dir, hn, 2 * hd)), u |-> dir,
           at |-> VAdd(pos, VScale(dir, hn, 2 * hd)),
           B |-> f.B, raised |-> f.raised] :
          f \in {getFieldAtPosition(fieldValid, sample)} })

\* dY: one Boris push of length hn/hd from (pos, dir) for charge q; "at" is
\* the position after the first half step, where the field is sampled
dY(pos0, dir0, hn, hd, q, fieldValid, sample) ==
    The({ The({ The({ [x |-> VAdd(VAdd(pos, VScale(dir, hn, 2 * hd)),
                                  VScale(u, hn, 2 * hd)),
                       u |-> u, at |-> VAdd(pos, VScale(dir, hn, 2 * hd)),
                       B |-> f.B, raised |-> f.raised] :
                      u \in {VAdd(dir, VCross(VAdd(dir, VCross(dir, t)),
                                              VScale(t, 2 * DotD(t, t),
                                                     DotD(t, t) + DotN(t, t))))} })
                : t \in {VScale(f.B, q * hn, TwoMC * hd)} })
          : pos \in {pos0}, dir \in {dir0},
            f \in {getFieldAtPosition(fieldValid, sample)} })

\* one stepper invocation as the trace records it
Invocation(pos, dir, hn, hd, fieldValid, sample, out) ==
    [x |-> pos, u |-> dir, hn |-> hn, hd |-> hd,
     sample |-> IF fieldValid THEN sample.kind ELSE "nofield",
     at |-> out.at, B |-> out.B, outx |-> out.x, outu |-> out.u]

\* errorEstimation: |x1 - x2| / (step * (1 - 1/4)), by its class: the
\* magnitude of a non-zero difference is not computed (it is irrational)
errorEstimation(x1, x2, step) ==
    IF VIsNaN(x1) \/ VIsNaN(x2) THEN "nan"
    ELSE IF x1 = x2 THEN (IF step = 0 THEN "nan" ELSE "zero")
    ELSE IF step = 0 THEN "inf" ELSE "pos"

\* the mutant: the output is that of the two half steps
tryStep_composed(y, h, q, fieldValid, s1, s2, s3) ==
    The({ The({ [out |-> outCompare,
                 error |-> errorEstimation(out.x, outCompare.x, h),
                 raised |-> out.raised \/ outHelp.raised \/ outCompare.raised,
                 trace |-> << Invocation(y.x, y.u, h, 1, fieldValid, s1, out),
                              Invocation(y.x, y.u, h, 2, fieldValid, s2, outHelp),
                              Invocation(outHelp.x, outHelp.u, h, 2, fieldValid, s3,
                                         outCompare) >>] :
                outCompare \in {dY(outHelp.x, outHelp.u, h, 2, q, fieldValid, s3)} })
          : out \in {dY(y.x, y.u, h, 1, q, fieldValid, s1)},
            outHelp \in {dY(y.x, y.u, h, 2, q, fieldValid, s2)} })

\* the mutant: the second half step starts from the entry state again
tryStep_fromEntry(y, h, q, fieldValid, s1, s2, s3) ==
    The({ The({ [out |-> out,
                 error |-> errorEstimation(out.x, outCompare.x, h),
                 raised |-> out.raised \/ outHelp.raised \/ outCompare.raised,
                 trace |-> << Invocation(y.x, y.u, h, 1, fieldValid, s1, out),
                              Invocation(y.x, y.u, h, 2, fieldValid, s2, outHelp),
                              Invocation(y.x, y.u, h, 2, fieldValid, s3,
                                         outCompare) >>] :
                outCompare \in {dY(y.x, y.u, h, 2, q, fieldValid, s3)} })
          : out \in {dY(y.x, y.u, h, 1, q, fieldValid, s1)},
            outHelp \in {dY(y.x, y.u, h, 2, q, fieldValid, s2)} })

\* PropagationRS::tryStep: one step with h, two steps with h/2, the error
tryStep(y, h, q, fieldValid, s1, s2, s3) ==
    The({ The({ [out |-> out,
                 error |-> errorEstimation(out.x, outCompare.x, h),
                 raised |-> out.raised \/ outHelp.raised \/ outCompare.raised,
                 trace |-> << Invocation(y.x, y.u, h, 1, fieldValid, s1, out),
                              Invocation(y.x, y.u, h, 2, fieldValid, s2, outHelp),
                              Invocation(outHelp.x, outHelp.u, h, 2, fieldValid, s3,
                                         outCompare) >>] :
                outCompare \in {dY(outHelp.x, outHelp.u, h, 2, q, fieldValid, s3)} })
          : out \in {dY(y.x, y.u, h, 1, q, fieldValid, s1)},
            outHelp \in {dY(y.x, y.u, h, 2, q, fieldValid, s2)} })

(* ------------------------------------------------------------------ *)
(* the step-size controller                                             *)
(* ------------------------------------------------------------------ *)
\* A value of r = yErr.u.getR() / tolerance, with what the loop reads of it:
\* whether r > 1, whether r <= 1 (both false for NaN) and pow(r, -0.2) as the
\* fraction pn/pd (pd = 0 for +inf).
Ratio(id, gt1, le1, pn, pd) ==
    [id |-> id, gt1 |-> gt1, le1 |-> le1, pn |-> pn, pd |-> pd]

\* "double r = 42": pow(42, -0.2) is never taken
RInit == Ratio("r42", TRUE, FALSE, 1, 2)
RNaN == Ratio("nan", FALSE, FALSE, 0, 0)
\* r = 0: pow(0, -0.2) = +inf
RZero == Ratio("zero", FALSE, TRUE, 1, 0)
\* r = +inf: pow(inf, -0.2) = 0
RInf == Ratio("inf", TRUE, FALSE, 0, 1)
\* r = 1/32, 1 and 32: pow(r, -0.2) is 2, 1 and 1/2
FiniteRatios ==
    { Ratio("r1_32", FALSE, TRUE, 2, 1), Ratio("one", FALSE, TRUE, 1, 1),
      Ratio("r32", TRUE, FALSE, 1, 2) }

\* the values r can take for an error estimate of the given class
Ratios(err, tolerance) ==
    IF err = "nan" THEN {RNaN}
    ELSE IF err = "inf" THEN {RInf}
    ELSE IF err = "zero" THEN (IF tolerance = 0 THEN {RNaN} ELSE {RZero})
    ELSE IF tolerance = 0 THEN {RInf} ELSE FiniteRatios

\* step * 0.95 * pow(r, -0.2), evaluated left to right
Scaled(step, r) ==
    IF r.id = "nan" THEN NaN ELSE MulRat(MulRat(step, 19, 20), r.pn, r.pd)

\* the mutant: the decrease is not limited to minStep
Decrease_noMin(step, r, minStep) ==
    StdMax(Scaled(step, r), MulRat(step, 1, 10))

\* lines 104-106: the step to retry with
Decrease(step, r, minStep) ==
    StdMax(StdMax(Scaled(step, r), MulRat(step, 1, 10)), minStep)

\* the mutant: the increase is not limited to maxStep
Increase_noMax(step, r, maxStep) ==
    StdMin(Scaled(step, r), MulRat(step, 5, 1))

\* lines 111-113: the step proposed for the next call
Increase(step, r, maxStep) ==
    StdMin(StdMin(Scaled(step, r), MulRat(step, 5, 1)), maxStep)

\* the mutant: a step at minStep is retried like any other
Adjust_noSaturation(step, newStep, r, minStep, maxStep) ==
    IF r.gt1
    THEN [step |-> Decrease(step, r, minStep),
          newStep |-> Decrease(step, r, minStep), brk |-> FALSE]
    ELSE [step |-> step,
          newStep |-> IF step # maxStep THEN Increase(step, r, maxStep)
                      ELSE newStep,
          brk |-> TRUE]

\* lines 100-116: the body of the loop after r is known
Adjust(step, newStep, r, minStep, maxStep) ==
    IF r.gt1
    THEN IF step = minStep
         THEN [step |-> step, newStep |-> newStep, brk |-> TRUE]
         ELSE [step |-> Decrease(step, r, minStep),
               newStep |-> Decrease(step, r, minStep), brk |-> FALSE]
    ELSE [step |-> step,
          newStep |-> IF step # maxStep THEN Increase(step, r, maxStep)
                      ELSE newStep,
          brk |-> TRUE]

(* ------------------------------------------------------------------ *)
(* the scattering rotation                                              *)
(* ------------------------------------------------------------------ *)
\* An angle is the fraction a/b = tan(angle / 2); b = 0 is NaN.
NoAngle == <<0, 0>>
\* The mutant comes first: the root of 0 is not 0.
\* sqrt(x) for the product x under the root, times the factor the caller
\* applies: 0 for 0, NaN for a negative or NaN product, and for a positive
\* product the angle 2 * atan(1/2), whose sine 4/5 and cosine 3/5 are rational
DeltaPhi_offset(x) ==
    IF x = NaN \/ x < 0 THEN NoAngle ELSE <<1, 2>>

DeltaPhi(x) ==
    IF x = NaN \/ x < 0 THEN NoAngle
    ELSE IF x = 0 THEN <<0, 1>> ELSE <<1, 2>>

\* Vector3::getRotated(axis, angle): the rotation about axis / |axis|
getRotated(v0, axis0, angle) ==
    The({ IF v.d = 0 \/ axis.d = 0 \/ angle[2] = 0 \/ DotN(axis, axis) = 0
          THEN NaNVec
          ELSE The({ LET a == angle[1]
                         b == angle[2]
                         den == a * a + b * b
                         cn == b * b - a * a
                         sn == 2 * a * b
                     IN  VAdd(VAdd(VScale(v, cn, den), VScale(VCross(u, v), sn, den)),
                              VScale(u, DotN(u, v) * (den - cn), DotD(u, v) * den))
                     : u \in {getUnitVector(axis)} })
          : v \in {v0}, axis \in {axis0} })

\* Random::instance(): one generator for the process.  Its state is the
\* number of vectors drawn; randVector() returns the next of its stream.
RandVectors == << Ez, VScale(Ez, 0 - 1, 1) >>
randVector(state) == RandVectors[(state % Len(RandVectors)) + 1]

\* B.getR() >= minB, decided on the squares (minB >= 0)
FieldAtLeast(B, minB) == DotN(B, B) >= minB * minB * DotD(B, B)

(* ------------------------------------------------------------------ *)
(* configuration: constructors and setters                              *)
(* ------------------------------------------------------------------ *)
\* the arguments tried: tolerances in hundredths, lengths in quanta
TolArgs == {0 - 1, 0, 100, 101, NaN}
StepArgs == {0 - 1, 0, 12, 20, NaN}
RateArgs == {0, 1}
MinBArgs == {0, 1}
\* what an unassigned double member may hold when it is read
GarbageRates == {0 - 1, 0, 1}
GarbageMinB == {0, 2}

\* the members before the constructor body runs: only minStep(0) is set
NewProp(kind, fieldValid) ==
    [kind |-> kind, field |-> fieldValid, tolerance |-> Uninit, minStep |-> 0,
     maxStep |-> Uninit, scatterRate |-> Uninit, minB |-> Uninit,
     threw |-> FALSE]

\* Each setter maps the members to the members after the call; threw is set
\* when the call throws (a constructor then runs no further setter).  The
\* comparisons are those of doubles: each is false when a side is NaN.
setTolerance(p, tol) ==
    IF p.threw THEN p
    ELSE IF Gt(tol, 100) \/ Lt(tol, 0) THEN [p EXCEPT !.threw = TRUE]
    ELSE [p EXCEPT !.tolerance = tol]

setMinimumStep(p, min) ==
    IF p.threw THEN p
    ELSE IF Lt(min, 0) THEN [p EXCEPT !.threw = TRUE]
    ELSE IF Gt(min, p.maxStep) THEN [p EXCEPT !.threw = TRUE]
    ELSE [p EXCEPT !.minStep = min]

setMaximumStep(p, max) ==
    IF p.threw THEN p
    ELSE IF Lt(max, p.minStep) THEN [p EXCEPT !.threw = TRUE]
    ELSE [p EXCEPT !.maxStep = max]

setScatterRate(p, sRate) == IF p.threw THEN p ELSE [p EXCEPT !.scatterRate = sRate]

setMinB(p, mB) == IF p.threw THEN p ELSE [p EXCEPT !.minB = mB]

\* PropagationBP / PropagationRS (field, fixedStep)
FixedCtor(kind, fieldValid, fixedStep) ==
    setMinimumStep(
        setMaximumStep(setTolerance(NewProp(kind, fieldValid), 42), fixedStep),
        fixedStep)

\* PropagationBP(test, field, fixedStep, scatterRate, minB)
ScatterCtor(fieldValid, fixedStep, sRate, mB) ==
    setMinB(setScatterRate(FixedCtor("BP", fieldValid, fixedStep), sRate), mB)

\* PropagationBP / PropagationRS (field, tolerance, minStep, maxStep)
AdaptiveCtor(kind, fieldValid, tol, min, max) ==
    setMinimumStep(
        setMaximumStep(setTolerance(NewProp(kind, fieldValid), tol), max), min)

\* every propagator a constructor call with numbers for arguments returns (a
\* throwing call returns none)
Constructed ==
    { p \in
        {FixedCtor(k, f, h) : k \in {"BP", "RS"}, f \in BOOLEAN,
                              h \in StepArgs \ {NaN}}
        \cup {ScatterCtor(f, h, s, b) :
                f \in BOOLEAN, h \in StepArgs \ {NaN}, s \in RateArgs,
                b \in MinBArgs}
        \cup UNION {{AdaptiveCtor(k, f, t, lo, hi) : k \in {"BP", "RS"}, f \in BOOLEAN} :
                t \in TolArgs \ {NaN}, lo \in StepArgs \ {NaN},
                hi \in StepArgs \ {NaN}}
      : ~p.threw }

(* ------------------------------------------------------------------ *)
(* state                                                                *)
(* ------------------------------------------------------------------ *)
\* the number of process calls one run makes
MaxCalls == 2

VARIABLES
    prop,       \* the propagator: kind, field and the configuration members
    modRate,    \* Scatter::scatterRate of the Scatter module
    cand,       \* the candidates: current state, previous state, step lengths
    pc,         \* where each candidate's process call stands
    loc,        \* the locals of the call in progress
    rng,        \* the state of Random::instance()
    ncalls,     \* process calls started so far
    entry,      \* (history) the candidate as the last propagator call found it
    trace,      \* (history) the stepper invocations behind the written state
    lastCall    \* (history) the last setter call and the members before it

vars == <<prop, modRate, cand, pc, loc, rng, ncalls, entry, trace, lastCall>>

Cands == DOMAIN cand

NoCall == [op |-> "none", arg |-> 0, threw |-> FALSE]
NoLoc == [step |-> 0, newStep |-> 0, err |-> "none", r |-> RInit, x |-> Zero,
          u |-> Zero, dir |-> Zero, B |-> Zero, mB |-> 0, angle |-> NoAngle,
          seen |-> 0]

\* a candidate at the origin heading along x, before its first step; its
\* energy is the one TwoMC stands for (c_light = 1: 2 m c = 2 * energy)
NewCandidate(charge, nextStep) ==
    [pos |-> Zero, dir |-> Ex, energy |-> TwoMC \div 2, charge |-> charge,
     nrScatter |-> 0, currentStep |-> 0, nextStep |-> nextStep,
     previous |-> [pos |-> Zero, dir |-> Ex, energy |-> TwoMC \div 2,
                   charge |-> charge, nrScatter |-> 0]]

\* the mutant: the scatter count of the previous state is not refreshed
Snapshot_noCount(cd) ==
    [pos |-> cd.pos, dir |-> cd.dir, energy |-> cd.energy, charge |-> cd.charge,
     nrScatter |-> cd.previous.nrScatter]

\* "candidate->previous = current": the ParticleState is copied whole
Snapshot(cd) ==
    [pos |-> cd.pos, dir |-> cd.dir, energy |-> cd.energy, charge |-> cd.charge,
     nrScatter |-> cd.nrScatter]

EntryOf(cd) ==
    [pos |-> cd.pos, dir |-> cd.dir, energy |-> cd.energy, charge |-> cd.charge,
     nrScatter |-> cd.nrScatter, currentStep |-> cd.currentStep,
     nextStep |-> cd.nextStep]

\* a configuration as the documentation of the setters describes it
ValidConfig(p) ==
    /\ p.tolerance # NaN /\ 0 <= p.tolerance /\ p.tolerance <= 100
    /\ p.minStep # NaN /\ p.maxStep # NaN
    /\ 0 <= p.minStep /\ p.minStep <= p.maxStep

\* the charges and proposed first steps the source gives a candidate
Charges == {0, 1}
NextStepInputs == {0, 15, 50}

\* the propagators ps and Scatter rates rs, and the candidates cs not yet
\* emitted by the source
InitWith(ps, rs, cs) ==
    /\ prop \in ps
    /\ modRate \in rs
    /\ cand = [c \in cs |-> NewCandidate(0, 0)]
    /\ pc = [c \in cs |-> "new"]
    /\ loc = [c \in cs |-> NoLoc]
    /\ rng = 0
    /\ ncalls = 0
    /\ entry = [c \in cs |-> EntryOf(NewCandidate(0, 0))]
    /\ trace = [c \in cs |-> <<>>]
    /\ lastCall = NoCall

\* a propagator as its constructor left it and one candidate, processed call
\* after call
Init == InitWith(Constructed, {0}, {"a"})

\* the source emits candidate c: the simulation runs, and it runs with a
\* valid configuration
Emit(c, q, n) ==
    /\ pc[c] = "new"
    /\ ValidConfig(prop)
    /\ cand' = [cand EXCEPT ![c] = NewCandidate(q, n)]
    /\ pc' = [pc EXCEPT ![c] = "idle"]
    /\ entry' = [entry EXCEPT ![c] = EntryOf(NewCandidate(q, n))]
    /\ lastCall' = NoCall
    /\ UNCHANGED <<prop, modRate, loc, rng, ncalls, trace>>

(* ------------------------------------------------------------------ *)
(* setters, called while the propagator is set up                       *)
(* ------------------------------------------------------------------ *)
InSetup == \A c \in Cands : pc[c] = "new"

Called(op, arg, after) ==
    /\ InSetup
    /\ prop' = [after EXCEPT !.threw = FALSE]
    /\ lastCall' = [op |-> op, arg |-> arg, threw |-> after.threw,
                    before |-> prop]
    /\ UNCHANGED <<modRate, cand, pc, loc, rng, ncalls, entry, trace>>

SetTolerance(tol) == Called("setTolerance", tol, setTolerance(prop, tol))
SetMinimumStep(min) == Called("setMinimumStep", min, setMinimumStep(prop, min))
SetMaximumStep(max) == Called("setMaximumStep", max, setMaximumStep(prop, max))
SetScatterRate(sRate) ==
    prop.kind = "BP" /\ Called("setScatterRate", sRate, setScatterRate(prop, sRate))
SetMinB(mB) == prop.kind = "BP" /\ Called("setMinB", mB, setMinB(prop, mB))

(* ------------------------------------------------------------------ *)
(* process: what both propagators share                                 *)
(* ------------------------------------------------------------------ *)
CanStart(c) == pc[c] \in {"idle", "done"} /\ ncalls < MaxCalls

\* the call is entered: "candidate->previous = current"
Started(c) ==
    /\ ncalls' = ncalls + 1
    /\ entry' = [entry EXCEPT ![c] = EntryOf(cand[c])]
    /\ lastCall' = NoCall
    /\ UNCHANGED <<prop, modRate>>

\* the mutant: the step of a neutral particle is not clipped
Neutral_unclipped(cd, minStep, maxStep) ==
    [cd EXCEPT !.previous = Snapshot(cd),
               !.pos = VAdd(cd.pos, VScale(cd.dir, cd.nextStep, 1)),
               !.currentStep = cd.nextStep,
               !.nextStep = maxStep]

\* the mutant: the step of a neutral particle is counted as a scattering
Neutral_scattered(cd, minStep, maxStep) ==
    LET step == clip(cd.nextStep, minStep, maxStep)
    IN  [cd EXCEPT !.previous = Snapshot(cd),
                   !.pos = VAdd(cd.pos, VScale(cd.dir, step, 1)),
                   !.nrScatter = cd.nrScatter + 1,
                   !.currentStep = step,
                   !.nextStep = maxStep]

\* the branch "if (q == 0)": rectilinear propagation
Neutral(cd, minStep, maxStep) ==
    LET step == clip(cd.nextStep, minStep, maxStep)
    IN  [cd EXCEPT !.previous = Snapshot(cd),
                   !.pos = VAdd(cd.pos, VScale(cd.dir, step, 1)),
                   !.currentStep = step,
                   !.nextStep = maxStep]

\* the mutant: setNextStep is left out
Written_noNextStep(cd, x, dir, step, newStep) ==
    [cd EXCEPT !.pos = x, !.dir = dir, !.currentStep = step]

\* the mutant: the scatter counter is not raised
Scattered_uncounted(cd) == cd

\* "current.setNrScatter(current.getNrScatter()+1)"
Scattered(cd) == [cd EXCEPT !.nrScatter = cd.nrScatter + 1]

\* the four writes that end process
Written(cd, x, dir, step, newStep) ==
    [cd EXCEPT !.pos = x, !.dir = dir, !.currentStep = step,
               !.nextStep = newStep]

\* the call of candidate c returns with the candidate cd
Return(c, cd, l, tr) ==
    /\ cand' = [cand EXCEPT ![c] = cd]
    /\ pc' = [pc EXCEPT ![c] = "done"]
    /\ loc' = [loc EXCEPT ![c] = l]
    /\ trace' = [trace EXCEPT ![c] = tr]

\* an exception leaves process: nothing after "previous = current" is written
Abort(c) ==
    /\ cand' = [cand EXCEPT ![c].previous = Snapshot(cand[c])]
    /\ pc' = [pc EXCEPT ![c] = "aborted"]
    /\ loc' = [loc EXCEPT ![c] = NoLoc]
    /\ trace' = [trace EXCEPT ![c] = <<>>]

(* ------------------------------------------------------------------ *)
(* PropagationRS::process                                               *)
(* ------------------------------------------------------------------ *)
\* lines 62-94: up to the first tryStep of the loop, or the whole call for a
\* neutral candidate and in fixed-step mode
RSBegin(c) ==
    /\ prop.kind = "RS"
    /\ CanStart(c)
    /\ Started(c)
    /\ UNCHANGED rng
    /\ LET cd == cand[c]
           q == cd.charge
           yIn == [x |-> cd.pos, u |-> cd.dir]
           step == prop.maxStep
       IN  IF q = 0
           THEN Return(c, Neutral(cd, prop.minStep, prop.maxStep), NoLoc, <<>>)
           ELSE IF prop.minStep = prop.maxStep
           THEN \E s1 \in Samples(step, 1), s2 \in Samples(step, 2),
                   s3 \in Samples(step, 2) :
                    \E t \in {tryStep(yIn, step, q, prop.field, s1, s2, s3)} :
                        IF t.raised THEN Abort(c)
                        ELSE Return(c,
                                 Written([cd EXCEPT !.previous = Snapshot(cd)],
                                         t.out.x, getUnitVector(t.out.u),
                                         step, step),
                                 [NoLoc EXCEPT !.step = step, !.newStep = step,
                                               !.err = t.error,
                                               !.x = t.out.x, !.u = t.out.u],
                                 t.trace)
           ELSE /\ cand' = [cand EXCEPT ![c].previous = Snapshot(cd)]
                /\ pc' = [pc EXCEPT ![c] = "RSloop"]
                /\ loc' = [loc EXCEPT ![c] =
                            [NoLoc EXCEPT
                               !.step = clip(cd.nextStep, prop.minStep, prop.maxStep),
                               !.newStep = clip(cd.nextStep, prop.minStep, prop.maxStep)]]
                /\ trace' = [trace EXCEPT ![c] = <<>>]

\* lines 97-123: one pass of "while (true)", and the writes after the loop
\* when the pass breaks out of it
RSAttempt(c) ==
    /\ pc[c] = "RSloop"
    /\ UNCHANGED <<prop, modRate, rng, ncalls, entry, lastCall>>
    /\ LET cd == cand[c]
           l == loc[c]
           yIn == [x |-> cd.pos, u |-> cd.dir]
       IN  \E s1 \in Samples(l.step, 1), s2 \in Samples(l.step, 2),
              s3 \in Samples(l.step, 2) :
               \E t \in {tryStep(yIn, l.step, cd.charge, prop.field, s1, s2, s3)} :
                   IF t.raised THEN Abort(c)
                   ELSE \E r \in Ratios(t.error, prop.tolerance) :
                       \E a \in {Adjust(l.step, l.newStep, r, prop.minStep,
                                        prop.maxStep)} :
                           IF a.brk
                           THEN Return(c,
                                    Written(cd, t.out.x, getUnitVector(t.out.u),
                                            a.step, a.newStep),
                                    [NoLoc EXCEPT !.step = a.step,
                                                  !.newStep = a.newStep,
                                                  !.err = t.error, !.r = r,
                                                  !.x = t.out.x, !.u = t.out.u],
                                    t.trace)
                           ELSE /\ loc' = [loc EXCEPT ![c] =
                                            [NoLoc EXCEPT !.step = a.step,
                                                          !.newStep = a.newStep,
                                                          !.err = t.error,
                                                          !.r = r]]
                                /\ UNCHANGED <<cand, pc, trace>>

(* ------------------------------------------------------------------ *)
(* PropagationBP::process                                               *)
(* ------------------------------------------------------------------ *)
\* the value read from a member: any garbage when it was never assigned
ReadMember(m, garbage) == IF m = Uninit THEN garbage ELSE {m}

\* lines 70-112: up to the draw from Random::instance(), or the whole call
\* when no scattering takes place.  tryStep is empty and never called: in
\* adaptive mode yOut keeps Y() and B keeps Vector3d().
BPBegin(c) ==
    /\ prop.kind = "BP"
    /\ CanStart(c)
    /\ Started(c)
    /\ UNCHANGED rng
    /\ LET cd == cand[c]
           q == cd.charge
           step == prop.maxStep
           fixed == prop.minStep = prop.maxStep
       IN  IF q = 0
           THEN Return(c, Neutral(cd, prop.minStep, prop.maxStep), NoLoc, <<>>)
           ELSE \E s \in IF fixed THEN Samples(step, 1)
                                  ELSE {[kind |-> "unused", B |-> Zero]} :
             \E d \in {dY(cd.pos, cd.dir, step, 1, q, prop.field, s)} :
               LET yOut == IF fixed THEN [x |-> d.x, u |-> d.u]
                                    ELSE [x |-> Zero, u |-> Zero]
                   B == IF fixed THEN d.B ELSE Zero
                   tr == IF fixed
                         THEN <<Invocation(cd.pos, cd.dir, step, 1, prop.field, s, d)>>
                         ELSE <<>>
                   dir == getUnitVector(yOut.u)
                   saved == [cd EXCEPT !.previous = Snapshot(cd)]
                   l == [NoLoc EXCEPT !.step = step, !.newStep = step,
                                      !.x = yOut.x, !.u = yOut.u, !.dir = dir,
                                      !.B = B]
               IN  IF fixed /\ d.raised THEN Abort(c)
                   ELSE \E mB \in ReadMember(prop.minB, GarbageMinB) :
                       IF FieldAtLeast(B, mB)
                       THEN \E sRate \in ReadMember(prop.scatterRate, GarbageRates) :
                               /\ cand' = [cand EXCEPT ![c] = saved]
                               /\ pc' = [pc EXCEPT ![c] = "BPrand"]
                               /\ loc' = [loc EXCEPT ![c] =
                                           [l EXCEPT !.mB = mB,
                                                     !.angle = DeltaPhi(step * sRate)]]
                               /\ trace' = [trace EXCEPT ![c] = tr]
                       ELSE Return(c, Written(saved, yOut.x, dir, step, step),
                                   [l EXCEPT !.mB = mB], tr)

\* line 113, first half: randVector() reads the state of the generator
BPRandRead(c) ==
    /\ pc[c] = "BPrand"
    /\ loc' = [loc EXCEPT ![c].seen = rng]
    /\ pc' = [pc EXCEPT ![c] = "BPrandW"]
    /\ UNCHANGED <<prop, modRate, cand, rng, ncalls, entry, trace, lastCall>>

\* lines 113-124: randVector() stores the advanced state and returns; the
\* direction is rotated, the scatter counter raised, the candidate written
BPRandWrite(c) ==
    /\ pc[c] = "BPrandW"
    /\ rng' = loc[c].seen + 1
    /\ LET l == loc[c]
           cd == cand[c]
           rv == randVector(l.seen)
           rotationAxis == VCross(l.dir, rv)
           dir == getRotated(l.dir, rotationAxis, l.angle)
       IN  Return(c,
               Written(Scattered(cd), l.x, dir, l.step, l.newStep),
               [l EXCEPT !.dir = dir], trace[c])
    /\ UNCHANGED <<prop, modRate, ncalls, entry, lastCall>>

(* ------------------------------------------------------------------ *)
(* Scatter::process                                                     *)
(* ------------------------------------------------------------------ *)
\* lines 64-68: the step and direction are read, randVector() reads the
\* state of the generator
ScRead(c) ==
    /\ CanStart(c)
    /\ ncalls' = ncalls + 1
    /\ lastCall' = NoCall
    /\ pc' = [pc EXCEPT ![c] = "SCrandW"]
    /\ loc' = [loc EXCEPT ![c] =
                [NoLoc EXCEPT !.step = cand[c].currentStep,
                              !.dir = cand[c].dir,
                              !.angle = DeltaPhi(2 * cand[c].currentStep * modRate),
                              !.seen = rng]]
    /\ UNCHANGED <<prop, modRate, cand, rng, entry, trace>>

\* lines 68-73: randVector() stores the advanced state and returns; the
\* rotated direction and the step are written to the candidate
ScWrite(c) ==
    /\ pc[c] = "SCrandW"
    /\ rng' = loc[c].seen + 1
    /\ LET l == loc[c]
           rv == randVector(l.seen)
           rotationAxis == VCross(l.dir, rv)
           dir == getRotated(l.dir, rotationAxis, l.angle)
       IN  cand' = [cand EXCEPT ![c].dir = dir, ![c].nextStep = l.step]
    /\ pc' = [pc EXCEPT ![c] = "idle"]
    /\ loc' = [loc EXCEPT ![c] = NoLoc]
    /\ UNCHANGED <<prop, modRate, ncalls, entry, trace, lastCall>>

(* ------------------------------------------------------------------ *)
(* specifications                                                       *)
(* ------------------------------------------------------------------ *)
Next ==
    \/ \E tol \in TolArgs : SetTolerance(tol)
    \/ \E min \in StepArgs : SetMinimumStep(min)
    \/ \E max \in StepArgs : SetMaximumStep(max)
    \/ \E sRate \in RateArgs : SetScatterRate(sRate)
    \/ \E mB \in MinBArgs : SetMinB(mB)
    \/ \E c \in Cands, q \in Charges, n \in NextStepInputs : Emit(c, q, n)
    \/ \E c \in Cands : RSBegin(c)
    \/ \E c \in Cands : RSAttempt(c)
    \/ \E c \in Cands : BPBegin(c)
    \/ \E c \in Cands : BPRandRead(c)
    \/ \E c \in Cands : BPRandWrite(c)

Spec == Init /\ [][Next]_vars

\* Two candidates in flight at once, one thread each, through one scattering
\* PropagationBP and one Scatter module: the steps of the two calls interleave.
ConcProps ==
    {ScatterCtor(f, h, s, b) :
        f \in BOOLEAN, h \in {12, 20}, s \in RateArgs, b \in MinBArgs}

InitConc == InitWith(ConcProps, RateArgs, {"a", "b"})

NextConc ==
    \/ \E c \in Cands, q \in Charges, n \in NextStepInputs : Emit(c, q, n)
    \/ \E c \in Cands : BPBegin(c)
    \/ \E c \in Cands : BPRandRead(c)
    \/ \E c \in Cands : BPRandWrite(c)
    \/ \E c \in Cands : ScRead(c)
    \/ \E c \in Cands : ScWrite(c)

SpecConc == InitConc /\ [][NextConc]_vars

(* ------------------------------------------------------------------ *)
(* properties                                                           *)
(* ------------------------------------------------------------------ *)
\* x limited to [lo, hi] as a number (lo <= hi, nothing is NaN)
Clipped(x, lo, hi) == IF x < lo THEN lo ELSE IF x > hi THEN hi ELSE x

\* the propagator call of candidate c has returned
Done(c) == pc[c] = "done"
Charged(c) == entry[c].charge # 0
FixedMode == prop.minStep = prop.maxStep

\* C1: a process call on a neutral candidate leaves the direction as it was,
\* moves the position by direction * clip(nextStep, minStep, maxStep), sets
\* currentStep to that clipped length and nextStep to maxStep.
C1_NeutralRectilinear ==
    \A c \in Cands :
        (Done(c) /\ ~Charged(c)) =>
            LET e == entry[c]
                h == Clipped(e.nextStep, prop.minStep, prop.maxStep)
            IN  /\ cand[c].dir = e.dir
                /\ cand[c].pos = VAdd(e.pos, VScale(e.dir, h, 1))
                /\ cand[c].currentStep = h
                /\ cand[c].nextStep = prop.maxStep

\* a neutral candidate that came with a nextStep above maxStep has moved
C1_Witness ==
    \E c \in Cands :
        /\ Done(c) /\ ~Charged(c)
        /\ entry[c].nextStep > prop.maxStep
        /\ prop.maxStep > 0
        /\ cand[c].pos # entry[c].pos

\* a length within [minStep, maxStep]
InRange(h) == h # NaN /\ prop.minStep <= h /\ h <= prop.maxStep

\* C2: after every completed process call currentStep and nextStep lie in
\* [minStep, maxStep].
C2_StepsInRange ==
    \A c \in Cands :
        Done(c) => InRange(cand[c].currentStep) /\ InRange(cand[c].nextStep)

\* C3: in fixed-step mode (minStep = maxStep = h) currentStep and nextStep
\* are both h after every process call.
C3_FixedStep ==
    \A c \in Cands :
        (Done(c) /\ FixedMode) =>
            cand[c].currentStep = prop.maxStep /\ cand[c].nextStep = prop.maxStep

\* the second call in fixed-step mode on a charged candidate has returned
C3_Witness ==
    \E c \in Cands :
        /\ Done(c) /\ FixedMode /\ Charged(c)
        /\ ncalls = 2
        /\ prop.maxStep > 0
        /\ cand[c].previous.pos # Zero

\* C4: the adaptive loop of PropagationRS::process is left with r <= 1 or with
\* step = minStep.
C4_LoopExit ==
    \A c \in Cands :
        (Done(c) /\ prop.kind = "RS" /\ Charged(c) /\ ~FixedMode) =>
            loc[c].r.le1 \/ loc[c].step = prop.minStep

\* C5: a direction of unit norm on entry is of unit norm after the call.
C5_UnitDirection ==
    \A c \in Cands :
        (Done(c) /\ IsUnit(entry[c].dir)) => IsUnit(cand[c].dir)

\* C6: the stored bounds satisfy 0 <= minStep <= maxStep; setMinimumStep(min)
\* with min < 0 or min > maxStep and setMaximumStep(max) with max < minStep
\* throw and change neither bound; any other call stores its argument as given.
C6_StepBounds ==
    /\ prop.minStep # NaN /\ prop.maxStep # NaN
    /\ 0 <= prop.minStep /\ prop.minStep <= prop.maxStep
    /\ lastCall.op = "setMinimumStep" =>
          IF Lt(lastCall.arg, 0) \/ Gt(lastCall.arg, lastCall.before.maxStep)
          THEN lastCall.threw /\ prop = lastCall.before
          ELSE ~lastCall.threw /\ prop.minStep = lastCall.arg
                  /\ prop.maxStep = lastCall.before.maxStep
    /\ lastCall.op = "setMaximumStep" =>
          IF Lt(lastCall.arg, lastCall.before.minStep)
          THEN lastCall.threw /\ prop = lastCall.before
          ELSE ~lastCall.threw /\ prop.maxStep = lastCall.arg
                  /\ prop.minStep = lastCall.before.minStep

\* C7: the stored tolerance lies in [0, 1]; setTolerance(tol) with tol < 0 or
\* tol > 1 throws and leaves it as it was, with 0 <= tol <= 1 it stores tol.
C7_ToleranceRange ==
    /\ prop.tolerance # NaN /\ 0 <= prop.tolerance /\ prop.tolerance <= 100
    /\ lastCall.op = "setTolerance" =>
          IF Lt(lastCall.arg, 0) \/ Gt(lastCall.arg, 100)
          THEN lastCall.threw /\ prop = lastCall.before
          ELSE ~lastCall.threw /\ prop.tolerance = lastCall.arg

\* the push of invocation i is rectilinear
Rectilinear(i) ==
    /\ i.outu = i.u
    /\ i.outx = VAdd(i.x, VScale(i.u, i.hn, i.hd))

\* C8: a sample on which the field model throws, or for which no field is
\* set, is the zero vector; no exception leaves process; the push taken with
\* that sample leaves the direction and moves the position by direction * step.
C8_FailSoft ==
    \A c \in Cands :
        /\ pc[c] # "aborted"
        /\ \A k \in DOMAIN trace[c] :
              trace[c][k].sample \in {"throw", "nofield"} =>
                  trace[c][k].B = Zero /\ Rectilinear(trace[c][k])

\* a call has returned whose field model threw on a sample of a push of
\* positive length, while another push of the same call got a field value
C8_Witness ==
    \E c \in Cands :
        /\ Done(c) /\ Charged(c)
        /\ \E k \in DOMAIN trace[c] :
              trace[c][k].sample = "throw" /\ trace[c][k].hn > 0
        /\ \E k \in DOMAIN trace[c] :
              trace[c][k].sample = "value" /\ ~Rectilinear(trace[c][k])

\* C9: a call on a charged candidate invokes the stepper, and the position
\* written is the output of an invocation started from the entry state, as is
\* the direction (normalised) when no scattering rotation was applied.
C9_StepperOutputs ==
    \A c \in Cands :
        (Done(c) /\ Charged(c)) =>
            \E k \in DOMAIN trace[c] :
                /\ trace[c][k].x = entry[c].pos
                /\ trace[c][k].u = entry[c].dir
                /\ cand[c].pos = trace[c][k].outx
                /\ cand[c].nrScatter = entry[c].nrScatter =>
                       cand[c].dir = getUnitVector(trace[c][k].outu)

\* the call of candidate c has read the generator and not yet stored its
\* advanced state
InGenerator(c) == pc[c] \in {"BPrandW", "SCrandW"}

\* C10: concurrent calls touch no mutable state in common: no two calls are
\* inside the random generator at once, and two calls that have both drawn
\* from it have drawn what two calls run one after the other draw.
C10_NoSharedState ==
    \A c, d \in Cands :
        c # d =>
            /\ ~(InGenerator(c) /\ InGenerator(d))
            /\ (Done(c) /\ Done(d) /\ ncalls = 2
                  /\ cand[c].nrScatter = 1 /\ cand[d].nrScatter = 1)
                  => loc[c].seen # loc[d].seen

\* the ParticleState candidate c had when its last propagator call was entered
EntryState(c) ==
    [pos |-> entry[c].pos, dir |-> entry[c].dir, energy |-> entry[c].energy,
     charge |-> entry[c].charge, nrScatter |-> entry[c].nrScatter]

\* C11: when a process call of PropagationBP or PropagationRS has returned,
\* candidate.previous is the state candidate.current had when the call was
\* entered: position, direction, energy, charge and scatter count.
C11_PreviousIsEntry ==
    \A c \in Cands :
        (Done(c) \/ pc[c] \in {"RSloop", "BPrand", "BPrandW"}) =>
            cand[c].previous = EntryState(c)

\* a second call has returned that scattered, after a first that had moved
\* and scattered the candidate: previous differs from the initial state and
\* from current in position and in scatter count
C11_Witness ==
    \E c \in Cands :
        /\ Done(c) /\ ncalls = 2
        /\ cand[c].previous.nrScatter = 1 /\ cand[c].nrScatter = 2
        /\ cand[c].previous.pos # Zero
        /\ cand[c].previous.pos # cand[c].pos

\* the call of candidate c is inside the adaptive loop or the scattering block
InStepper(c) == pc[c] \in {"RSloop", "BPrand", "BPrandW"}

\* C12: a process call on a neutral candidate never reaches the adaptive loop
\* or the scattering block, invokes the stepper (and with it the field
\* sampler) not once, and leaves the scatter counter as it was.
C12_NeutralNoField ==
    \A c \in Cands :
        cand[c].charge = 0 =>
            /\ ~InStepper(c)
            /\ Done(c) => /\ trace[c] = <<>>
                          /\ cand[c].nrScatter = entry[c].nrScatter
                          /\ cand[c].dir = entry[c].dir

\* a neutral candidate has been moved twice by a PropagationBP that has a
\* field and scatters a charged candidate on every call
C12_Witness ==
    \E c \in Cands :
        /\ Done(c) /\ ~Charged(c) /\ ncalls = 2
        /\ prop.kind = "BP" /\ prop.field /\ FixedMode
        /\ prop.scatterRate = 1 /\ prop.minB = 0
        /\ cand[c].currentStep > 0

\* what the last propagator call of candidate c had to add to the scatter
\* counter: 1 for a PropagationBP call on a charged candidate whose field
\* sample was of magnitude >= minB
ScatterDue(c) ==
    IF prop.kind = "BP" /\ Charged(c) /\ FieldAtLeast(loc[c].B, loc[c].mB)
    THEN 1 ELSE 0

\* C13: no step of any run decreases a candidate's scatter counter, and a
\* returned process call has raised it by exactly 1 when the scattering was
\* applied (PropagationBP, charged, |B| >= minB) and by 0 otherwise.
C13_ScatterCount ==
    /\ [](\A c \in Cands :
            Done(c) => cand[c].nrScatter = entry[c].nrScatter + ScatterDue(c))
    /\ [][\A c \in Cands : cand'[c].nrScatter >= cand[c].nrScatter]_vars

\* with one threshold minB > 0, a first call scattered the candidate and a
\* second, whose field sample failed, did not
C13_Witness ==
    \E c \in Cands :
        /\ Done(c) /\ Charged(c) /\ ncalls = 2
        /\ prop.kind = "BP" /\ prop.minB = 1
        /\ entry[c].nrScatter = 1 /\ cand[c].nrScatter = 1
        /\ loc[c].B = Zero

\* C14: with scatterRate = 0 the scattering leaves the direction alone: a
\* returned PropagationBP call has written the normalised direction of its
\* Boris step, and Scatter::process writes back the direction it read.
C14_ZeroRate ==
    /\ [](\A c \in Cands :
            (Done(c) /\ Charged(c) /\ prop.scatterRate = 0) =>
                cand[c].dir = getUnitVector(loc[c].u))
    /\ [][\A c \in Cands :
            (modRate = 0 /\ pc[c] = "SCrandW" /\ pc'[c] # "SCrandW") =>
                cand[c].dir = loc[c].dir /\ cand'[c].dir = loc[c].dir]_vars

\* a candidate went through the scattering block of PropagationBP and then
\* through Scatter::process, both with rate 0, after a Boris step that had
\* turned its direction
C14_Witness ==
    \E c \in Cands :
        /\ pc[c] = "idle" /\ cand[c].currentStep > 0
        /\ prop.scatterRate = 0 /\ modRate = 0
        /\ cand[c].nrScatter = 1
        /\ cand[c].dir # Ex /\ IsUnit(cand[c].dir)

\* the adaptive loop of PropagationRS runs, or ran, for candidate c
Adaptive(c) == prop.kind = "RS" /\ Charged(c) /\ ~FixedMode

\* the last attempt recorded in l had an error estimate of zero, or one
\* small against the tolerance (r = 0 or r = 1/32)
Negligible(l) == l.err = "zero" \/ l.r.id \in {"zero", "r1_32"}

\* C15: in adaptive mode an attempt at h < maxStep whose error estimate is
\* zero or negligible is not retried; the call returns with currentStep = h
\* and h < nextStep <= maxStep.
C15_GrowOnSmallError ==
    \A c \in Cands :
        /\ pc[c] = "RSloop" => ~Negligible(loc[c])
        /\ (Done(c) /\ Adaptive(c) /\ Negligible(loc[c])
              /\ loc[c].step < prop.maxStep) =>
                /\ cand[c].currentStep = loc[c].step
                /\ Gt(cand[c].nextStep, loc[c].step)
                /\ Gt(cand[c].nextStep, prop.maxStep) = FALSE
                /\ cand[c].nextStep # NaN

\* C17: in fixed-step mode a call on a charged candidate invokes the stepper
\* exactly once, with the step maxStep from the entry state, and computes no
\* error estimate.
C17_SingleInvocation ==
    \A c \in Cands :
        (Done(c) /\ Charged(c) /\ FixedMode) =>
            /\ Len(trace[c]) = 1
            /\ trace[c][1].hn = prop.maxStep /\ trace[c][1].hd = 1
            /\ trace[c][1].x = entry[c].pos /\ trace[c][1].u = entry[c].dir
            /\ loc[c].err = "none"

\* the larger of two numbers
MaxOf(a, b) == IF a >= b THEN a ELSE b
MinOf(a, b) == IF a <= b THEN a ELSE b

\* candidate c goes from one attempt of the adaptive loop to the next
Retries(c) == pc[c] = "RSloop" /\ pc'[c] = "RSloop"
\* the adaptive loop of candidate c is left after an attempt
Leaves(c) == pc[c] = "RSloop" /\ pc'[c] = "done"

\* C18: an attempt at h > minStep with r > 1 is retried, and retried with
\* max(0.95 * h * r^(-0.2), 0.1 * h, minStep), a step below h and not below
\* minStep; no other attempt is retried.
C18_Retry ==
    [][\A c \in Cands :
         LET h == loc[c].step
             r == loc'[c].r
         IN  /\ Retries(c) =>
                   /\ r.gt1 /\ h > prop.minStep
                   /\ loc'[c].step =
                         MaxOf(MaxOf(MulRat(MulRat(h, 19, 20), r.pn, r.pd),
                                     MulRat(h, 1, 10)), prop.minStep)
                   /\ loc'[c].step < h
                   /\ loc'[c].step >= prop.minStep
             /\ Leaves(c) => ~(r.gt1 /\ h > prop.minStep)]_vars

\* the loop is about to retry with a step that r = 32 brought down from the
\* first attempt's to 0.95 * h / 2, above 0.1 * h and above minStep
C18_Witness ==
    \E c \in Cands :
        /\ pc[c] = "RSloop" /\ loc[c].r.id = "r32"
        /\ loc[c].step < Clipped(entry[c].nextStep, prop.minStep, prop.maxStep)
        /\ loc[c].step > prop.minStep
        /\ loc[c].step > 2

\* C19: an attempt at h with r <= 1 is accepted with currentStep = h; for
\* h < maxStep the call leaves h <= nextStep <= min(5h, maxStep), for
\* h = maxStep it leaves nextStep = maxStep.
C19_Accept ==
    \A c \in Cands :
        (Done(c) /\ Adaptive(c) /\ loc[c].r.le1) =>
            LET h == loc[c].step
            IN  /\ cand[c].currentStep = h
                /\ cand[c].nextStep # NaN
                /\ IF h < prop.maxStep
                   THEN /\ h <= cand[c].nextStep
                        /\ cand[c].nextStep <= MinOf(5 * h, prop.maxStep)
                   ELSE cand[c].nextStep = prop.maxStep

\* C20: an attempt at h = minStep with r > 1 is not retried: the call returns
\* with currentStep = nextStep = minStep and the position and direction of
\* the full step minStep taken from the entry state.
C20_AcceptAtMinStep ==
    /\ [](\A c \in Cands :
            (Done(c) /\ Adaptive(c) /\ loc[c].r.gt1
                /\ loc[c].step = prop.minStep) =>
                /\ cand[c].currentStep = prop.minStep
                /\ cand[c].nextStep = prop.minStep
                /\ trace[c][1].hn = prop.minStep /\ trace[c][1].hd = 1
                /\ trace[c][1].x = entry[c].pos
                /\ trace[c][1].u = entry[c].dir
                /\ cand[c].pos = trace[c][1].outx
                /\ cand[c].dir = getUnitVector(trace[c][1].outu))
    /\ [][\A c \in Cands : Retries(c) => loc[c].step # prop.minStep]_vars

\* a call has returned whose loop came down to a positive minStep from a
\* larger first attempt and there still found r > 1
C20_Witness ==
    \E c \in Cands :
        /\ Done(c) /\ Adaptive(c) /\ loc[c].r.gt1
        /\ loc[c].step = prop.minStep /\ prop.minStep > 0
        /\ Clipped(entry[c].nextStep, prop.minStep, prop.maxStep) > prop.minStep
        /\ cand[c].dir # entry[c].dir

\* invocation i sampled the field at the position its own first half step
\* reached, and pushed with what that sample gave: the field's value, or
\* the zero vector when the sample failed
SampledAnew(i) ==
    /\ i.at = VAdd(i.x, VScale(i.u, i.hn, 2 * i.hd))
    /\ IF i.sample = "value" THEN i.B \in FieldValues(i.hn, i.hd)
                             ELSE i.B = Zero

\* the invocations recorded for candidate c are those of one error-estimation
\* attempt: the full step and the first half step from the entry state, the
\* second half step from the output of the first
ThreePushes(c) ==
    LET t == trace[c]
    IN  /\ Len(t) = 3
        /\ t[1].x = entry[c].pos /\ t[1].u = entry[c].dir /\ t[1].hd = 1
        /\ t[2].x = entry[c].pos /\ t[2].u = entry[c].dir
        /\ t[2].hn = t[1].hn /\ t[2].hd = 2
        /\ t[3].x = t[2].outx /\ t[3].u = t[2].outu
        /\ t[3].hn = t[1].hn /\ t[3].hd = 2
        /\ \A k \in 1..3 : SampledAnew(t[k])

\* C21: the error-estimation attempt behind a returned PropagationRS call
\* invoked the stepper three times: the step h and the step h/2 from the entry
\* state, and the step h/2 from the output of that half step; each invocation
\* sampled the field for itself at its own half-stepped position.
C21_ThreeInvocations ==
    \A c \in Cands :
        (Done(c) /\ prop.kind = "RS" /\ Charged(c)) =>
            ThreePushes(c) /\ trace[c][1].hn = cand[c].currentStep

\* an accepted attempt of the adaptive loop whose full step and first half
\* step got a field value and whose second half step, started from the
\* turned output of the first, got a failed sample
C21_Witness ==
    \E c \in Cands :
        /\ Done(c) /\ Adaptive(c) /\ trace[c] # <<>>
        /\ trace[c][1].sample = "value" /\ trace[c][2].sample = "value"
        /\ trace[c][3].sample = "throw"
        /\ trace[c][3].x # entry[c].pos /\ trace[c][3].u # entry[c].dir
        /\ trace[c][3].at # trace[c][2].at

\* the sample invocation i got, as dY takes it
SampleOf(i) ==
    [kind |-> IF i.sample = "throw" THEN "throw" ELSE "value", B |-> i.B]

\* the Boris push of length h from the entry state of candidate c, with the
\* field sample of invocation i
FullStep(c, h, i) ==
    dY(entry[c].pos, entry[c].dir, h, 1, entry[c].charge, prop.field, SampleOf(i))

\* C22: after a PropagationRS call on a charged candidate the position and
\* the direction before normalisation are those of one full Boris step of
\* length currentStep from the entry state: not of a rejected attempt, not
\* of the two half steps.
C22_FullStepWritten ==
    \A c \in Cands :
        (Done(c) /\ prop.kind = "RS" /\ Charged(c)) =>
            \E full \in {FullStep(c, cand[c].currentStep, trace[c][1])} :
                /\ cand[c].pos = full.x
                /\ loc[c].u = full.u
                /\ cand[c].dir = getUnitVector(full.u)

\* a call has returned that rejected its first attempt and accepted a
\* smaller step in a field that turned the direction: the full step and the
\* two half steps of the accepted attempt end at different positions
C22_Witness ==
    \E c \in Cands :
        /\ Done(c) /\ Adaptive(c) /\ trace[c] # <<>>
        /\ 0 < cand[c].currentStep
        /\ cand[c].currentStep <
               Clipped(entry[c].nextStep, prop.minStep, prop.maxStep)
        /\ trace[c][1].outx # trace[c][3].outx
        /\ cand[c].dir # entry[c].dir
        /\ cand[c].pos = trace[c][1].outx

\* the PropagationBP call of candidate c has evaluated "B.getR() >= minB"
ReadMinB(c) ==
    prop.kind = "BP" /\ Charged(c) /\ (Done(c) \/ pc[c] \in {"BPrand", "BPrandW"})

\* the PropagationBP call of candidate c has computed deltaPhi from scatterRate
ReadScatterRate(c) ==
    /\ prop.kind = "BP" /\ Charged(c)
    /\ \/ pc[c] \in {"BPrand", "BPrandW"}
       \/ Done(c) /\ cand[c].nrScatter > entry[c].nrScatter

\* C23: whatever member PropagationBP::process has read (minStep and maxStep
\* in every call, minB for a charged candidate, scatterRate when it scatters;
\* the tolerance is assigned too) had been assigned by the constructor or by
\* a setter.
C23_ConfigAssigned ==
    \A c \in Cands :
        /\ (prop.kind = "BP" /\ pc[c] # "new") =>
               /\ prop.tolerance # Uninit
               /\ prop.minStep # Uninit /\ prop.maxStep # Uninit
        /\ ReadMinB(c) => prop.minB # Uninit
        /\ ReadScatterRate(c) => prop.scatterRate # Uninit

====
